---------------------------- MODULE Spec2Model ----------------------------
(***************************************************************************)
(* QuickUnionUf<V> (src/src/quick_union.rs): a union-find structure made   *)
(* of a concurrent parent map (link_parent: DashMap<usize, usize>) and a   *)
(* vector of optional payloads (payload: Vec<Option<V>>).                  *)
(*                                                                         *)
(* Operations taking &mut self (insert, extend, union, get_mut) are atomic *)
(* actions: the borrow checker excludes every other access while they run. *)
(* find and get take &self; in Spec one caller runs them to completion, in *)
(* ConcSpec several threads run them one DashMap access at a time.         *)
(***************************************************************************)
EXTENDS Integers, Sequences, FiniteSets, TLC

\* ------------------------------------------------------------------ bounds
MaxSize == 4        \* elements ever inserted
NumVals == 2        \* distinct payload values a caller passes in
MaxExt == 2         \* longest sequence handed to extend
MaxAfterClone == 1  \* calls made while a duplicate exists, before it is dropped
NumThreads == 2     \* threads sharing the structure through &self

Vals == 0 .. (NumVals - 1)
Threads == 1 .. NumThreads

\* ------------------------------------------------------------ Option<V>
None == << >>
Some(v) == << v >>
IsSome(o) == o # None
Unwrap(o) == o[1]

\* The Union trait of the payload type: Union::union(v0, v1) returns
\* UnionResult::Left(val) or UnionResult::Right(val).  The side is the
\* policy's choice (an input of the union action); the merged value depends
\* on the order of its two arguments.
Sides == {"Left", "Right"}
MergeVal(v0, v1) == (v0 + 2 * v1 + 1) % NumVals

\* ------------------------------------------------------------------ state
VARIABLES
    link_parent,    \* DashMap<usize, usize>: key -> parent key
    payload,        \* Vec<Option<V>>: index -> None | Some(v), domain 0..len-1
    thr,            \* per thread: the frame of its running find/get call
    copy,           \* a second QuickUnionUf made by clone(), or NoCopy
    blocks,         \* history: the partition the calls describe (index -> least member of its block)
    passed,         \* history: how many values insert, from_iter and extend were given
    snap,           \* history: the original when copy was made, and the calls made since
    last            \* history: the last completed call, its arguments, result and pre-state

vars == << link_parent, payload, thr, copy, blocks, passed, snap, last >>

VecLen(pl) == Cardinality(DOMAIN pl)
size == VecLen(payload)

\* Vec::push / Vec::extend on a vector indexed from 0.
Push(pl, o) == [i \in 0 .. VecLen(pl) |-> IF i < VecLen(pl) THEN pl[i] ELSE o]
VecExtend_One(pl, vs) ==
    IF vs = << >> THEN pl ELSE Push(pl, Some(Head(vs)))
RECURSIVE VecExtend(_, _)
VecExtend(pl, vs) ==
    IF vs = << >> THEN pl ELSE VecExtend(Push(pl, Some(Head(vs))), Tail(vs))

\* DashMap::insert(k, v): adds or overwrites the entry of k.
MapInsert(lp, k, v) == [i \in (DOMAIN lp) \cup {k} |-> IF i = k THEN v ELSE lp[i]]
\* DashMap::extend((len..new_len).map(|x| (x, x)))
MapExtendSelf_OffByOne(lp, len, new_len) ==
    [i \in (DOMAIN lp) \cup ((len + 1) .. (new_len - 1)) |->
        IF i \in (len + 1) .. (new_len - 1) THEN i ELSE lp[i]]
MapExtendSelf(lp, len, new_len) ==
    [i \in (DOMAIN lp) \cup (len .. (new_len - 1)) |->
        IF i \in len .. (new_len - 1) THEN i ELSE lp[i]]
\* DashMap::get(&k) is Some exactly for the keys of the map.
HasKey(lp, k) == k \in DOMAIN lp

\* ------------------------------------------------------- find (lines 73-83)
\* The while loop, run to completion by one caller.  fault is the panic of
\* .unwrap() on a missing key.
\* Line 78: let _ = self.link_parent.insert(k, pp)
Halve_Self(lp, k, p, pp) == MapInsert(lp, k, k)
Halve_Keep(lp, k, p, pp) == MapInsert(lp, k, p)
Halve(lp, k, p, pp) == MapInsert(lp, k, pp)

RECURSIVE FindLoop(_, _, _)
FindLoop(lp, k, p) ==
    IF p = k THEN [lp |-> lp, ret |-> k, fault |-> FALSE, iters |-> 0]
    ELSE IF ~HasKey(lp, p) THEN [lp |-> lp, ret |-> k, fault |-> TRUE, iters |-> 0]
    ELSE LET pp == lp[p]
             r == FindLoop(Halve(lp, k, p, pp), p, pp)
         IN [r EXCEPT !.iters = @ + 1]

FindRun_Lenient(lp, key) ==
    IF ~HasKey(lp, key) THEN [lp |-> lp, ret |-> key, fault |-> FALSE, iters |-> 0]
    ELSE FindLoop(lp, key, lp[key])
FindRun(lp, key) ==
    IF ~HasKey(lp, key) THEN [lp |-> lp, ret |-> key, fault |-> TRUE, iters |-> 0]
    ELSE FindLoop(lp, key, lp[key])

\* -------------------------------------------------------- get (lines 86-89)
GetRun(lp, pl, key) ==
    LET f == FindRun(lp, key) IN
    IF f.fault THEN [lp |-> f.lp, ret |-> 0, fault |-> TRUE]
    ELSE IF f.ret \notin DOMAIN pl \/ ~IsSome(pl[f.ret])
         THEN [lp |-> f.lp, ret |-> 0, fault |-> TRUE]
    ELSE [lp |-> f.lp, ret |-> Unwrap(pl[f.ret]), fault |-> FALSE]

\* ---------------------------------------------------- get_mut (lines 92-95)
\* The caller writes v through the returned &mut V.
GetMutRun(lp, pl, key, v) ==
    LET f == FindRun(lp, key) IN
    IF f.fault THEN [lp |-> f.lp, pl |-> pl, ret |-> 0, fault |-> TRUE]
    ELSE IF f.ret \notin DOMAIN pl \/ ~IsSome(pl[f.ret])
         THEN [lp |-> f.lp, pl |-> pl, ret |-> 0, fault |-> TRUE]
    ELSE [lp |-> f.lp, pl |-> [pl EXCEPT ![f.ret] = Some(v)],
          ret |-> f.ret, fault |-> FALSE]

\* ------------------------------------------------------ union (lines 51-70)
\* Line 54: if k0 == k1 { return false; }
SameRoot_Never(k0, k1) == FALSE
SameRoot(k0, k1) == k0 = k1

\* Line 62: Union::union(v0, v1)
MergeCall_Swapped(v0, v1) == MergeVal(v1, v0)
MergeCall(v0, v1) == MergeVal(v0, v1)

\* Lines 62-65: Left(val) => (k0, k1, val), Right(val) => (k1, k0, val)
PickRoots_Left(side, k0, k1) == [parent |-> k0, child |-> k1]
PickRoots(side, k0, k1) ==
    IF side = "Left" THEN [parent |-> k0, child |-> k1]
    ELSE [parent |-> k1, child |-> k0]

\* Line 66: self.payload[parent] = Some(val)
StoreMerged_AtChild(pl, parent, child, val) == [pl EXCEPT ![child] = Some(val)]
StoreMerged(pl, parent, child, val) == [pl EXCEPT ![parent] = Some(val)]

\* Line 67: let _ = self.link_parent.insert(child, parent)
LinkChild_Skip(lp, child, parent) == lp
LinkChild_Reversed(lp, child, parent) == MapInsert(lp, parent, child)
LinkChild(lp, child, parent) == MapInsert(lp, child, parent)

UnionRun(lp, pl, key0, key1, side) ==
    LET f0 == FindRun(lp, key0) IN
    IF f0.fault THEN [lp |-> f0.lp, pl |-> pl, ret |-> FALSE, fault |-> TRUE]
    ELSE
    LET f1 == FindRun(f0.lp, key1) IN
    IF f1.fault THEN [lp |-> f1.lp, pl |-> pl, ret |-> FALSE, fault |-> TRUE]
    ELSE
    LET k0 == f0.ret
        k1 == f1.ret
    IN
    IF SameRoot(k0, k1) THEN [lp |-> f1.lp, pl |-> pl, ret |-> FALSE, fault |-> FALSE]
    ELSE IF k0 \notin DOMAIN pl \/ ~IsSome(pl[k0])
         THEN [lp |-> f1.lp, pl |-> pl, ret |-> FALSE, fault |-> TRUE]
    ELSE
    LET v0 == Unwrap(pl[k0])
        pl1 == [pl EXCEPT ![k0] = None]
    IN
    IF k1 \notin DOMAIN pl1 \/ ~IsSome(pl1[k1])
         THEN [lp |-> f1.lp, pl |-> pl1, ret |-> FALSE, fault |-> TRUE]
    ELSE
    LET v1 == Unwrap(pl1[k1])
        pl2 == [pl1 EXCEPT ![k1] = None]
        val == MergeCall(v0, v1)
        pick == PickRoots(side, k0, k1)
    IN
    [lp |-> LinkChild(f1.lp, pick.child, pick.parent),
     pl |-> StoreMerged(pl2, pick.parent, pick.child, val),
     ret |-> TRUE, fault |-> FALSE]

\* ----------------------------------------------------- insert (lines 43-48)
InsertRun_LateKey(lp, pl, data) ==
    LET pl1 == Push(pl, Some(data))
        key == VecLen(pl1)
    IN
    [lp |-> MapInsert(lp, key, key), pl |-> pl1, ret |-> key]
InsertRun(lp, pl, data) ==
    LET key == VecLen(pl) IN
    [lp |-> MapInsert(lp, key, key), pl |-> Push(pl, Some(data)), ret |-> key]

\* ---------------------------------------------------- extend (lines 112-122)
RECURSIVE Reverse(_)
Reverse(s) == IF s = << >> THEN << >> ELSE Append(Reverse(Tail(s)), Head(s))
ExtendRun_Reversed(lp, pl, vs) ==
    LET len == VecLen(pl)
        pl1 == VecExtend(pl, Reverse(vs))
    IN
    [lp |-> MapExtendSelf(lp, len, VecLen(pl1)), pl |-> pl1]
ExtendRun(lp, pl, vs) ==
    LET len == VecLen(pl)
        pl1 == VecExtend(pl, vs)
        new_len == VecLen(pl1)
    IN
    [lp |-> MapExtendSelf(lp, len, new_len), pl |-> pl1]

\* ------------------------------------------------------ clone (lines 20-27)
\* DashMap::clone and Vec::clone build new containers holding clones of the
\* entries: the duplicate owns its own map and vector.
MapClone_Empty(lp) == << >>
MapClone(lp) == lp
VecClone(pl) == pl
CloneRun(lp, pl) == [lp |-> MapClone(lp), pl |-> VecClone(pl)]

\* ------------------------------------------------- from_iter (lines 100-107)
EmptyMap == [i \in {} |-> 0]
FromIter(vs) == ExtendRun(EmptyMap, EmptyMap, vs)

\* Sequences of at most n values.
SeqsUpTo(n) == UNION {[1 .. m -> Vals] : m \in 0 .. n}

\* ----------------------------------------------------------- history state
\* The partition the calls describe: insert and extend add singletons, a
\* union call on two existing keys merges their blocks.
MinOf(S) == CHOOSE x \in S : \A y \in S : x <= y
BlockOf(bl, i) == {j \in DOMAIN bl : bl[j] = bl[i]}
AddSingletons(bl, n) == [i \in 0 .. (n - 1) |-> IF i \in DOMAIN bl THEN bl[i] ELSE i]
MergeBlocks(bl, a, b) ==
    LET m == MinOf({bl[a], bl[b]}) IN
    [i \in DOMAIN bl |-> IF bl[i] \in {bl[a], bl[b]} THEN m ELSE bl[i]]

\* No duplicate exists.
NoCopy == [lp |-> << >>, pl |-> << >>, live |-> FALSE]
NoSnap == [lp |-> << >>, pl |-> << >>, calls |-> 0, orig |-> FALSE, copy |-> FALSE]
\* A call on the original, or on the duplicate, while both exist.
TouchOrig(s) == IF copy.live THEN [s EXCEPT !.calls = @ + 1, !.orig = TRUE] ELSE s
TouchCopy(s) == [s EXCEPT !.calls = @ + 1, !.copy = TRUE]

\* ret is the index or value a call returned, ok the bool union returned.
NoCall == [op |-> "none", k0 |-> 0, k1 |-> 0, vs |-> << >>, side |-> "Left",
           ret |-> 0, ok |-> FALSE, fault |-> FALSE, lp0 |-> EmptyMap, pl0 |-> EmptyMap]

Call(op, k0, k1, vs, side, ret, fault) ==
    [op |-> op, k0 |-> k0, k1 |-> k1, vs |-> vs, side |-> side,
     ret |-> IF op = "union" THEN 0 ELSE ret,
     ok |-> IF op = "union" THEN ret ELSE FALSE,
     fault |-> fault, lp0 |-> link_parent, pl0 |-> payload]

\* ---------------------------------------------------------- thread frames
\* pc: "idle", "l77" (about to read the parent of p), "l78" (about to write
\* the parent of k), "l88" (get: about to read the payload at the root),
\* "done" (returned ret), "panicked" (an unwrap failed).
\* root0 and stale are history: the root of key when the call began, and
\* whether the call has overwritten a link another thread had rewritten since
\* the call read it.
IdleFrame == [pc |-> "idle", op |-> "find", key |-> 0, k |-> 0, p |-> 0, pp |-> 0,
              ret |-> 0, root0 |-> 0, stale |-> FALSE]
AllIdle == \A t \in Threads : thr[t].pc = "idle"

\* No result of an earlier call is still held by the caller.
Ready == last.op = "none"

\* Keys a caller passes: every existing index and the first one out of range.
Keys == 0 .. size
Indices == 0 .. (size - 1)

\* The root of i, by following parent links without rewriting any.
RECURSIVE RootN(_, _, _)
RootN(lp, i, n) ==
    IF n = 0 \/ ~HasKey(lp, i) THEN i
    ELSE IF lp[i] = i THEN i ELSE RootN(lp, lp[i], n - 1)
Root(lp, i) == RootN(lp, i, Cardinality(DOMAIN lp))

\* --------------------------------------------------------------------- Init
Init ==
    \E vs \in SeqsUpTo(MaxExt) :
        /\ link_parent = FromIter(vs).lp
        /\ payload = FromIter(vs).pl
        /\ thr = [t \in Threads |-> IdleFrame]
        /\ copy = NoCopy
        /\ blocks = AddSingletons(EmptyMap, Len(vs))
        /\ passed = Len(vs)
        /\ snap = NoSnap
        /\ last = [NoCall EXCEPT !.op = "from_iter", !.vs = vs]

\* ------------------------------------------------- exclusive (&mut self) ops
Insert(data) ==
    /\ AllIdle /\ Ready
    /\ size < MaxSize
    /\ LET r == InsertRun(link_parent, payload, data) IN
        /\ link_parent' = r.lp
        /\ payload' = r.pl
        /\ blocks' = AddSingletons(blocks, VecLen(r.pl))
        /\ last' = Call("insert", 0, 0, << data >>, "Left", r.ret, FALSE)
    /\ passed' = passed + 1
    /\ snap' = TouchOrig(snap)
    /\ UNCHANGED << thr, copy >>

Extend(vs) ==
    /\ AllIdle /\ Ready
    /\ size + Len(vs) <= MaxSize
    /\ LET r == ExtendRun(link_parent, payload, vs) IN
        /\ link_parent' = r.lp
        /\ payload' = r.pl
        /\ blocks' = AddSingletons(blocks, VecLen(r.pl))
        /\ last' = Call("extend", 0, 0, vs, "Left", 0, FALSE)
    /\ passed' = passed + Len(vs)
    /\ snap' = TouchOrig(snap)
    /\ UNCHANGED << thr, copy >>

UnionOp(key0, key1, side) ==
    /\ AllIdle /\ Ready
    /\ LET r == UnionRun(link_parent, payload, key0, key1, side) IN
        /\ link_parent' = r.lp
        /\ payload' = r.pl
        /\ blocks' = IF key0 \in DOMAIN blocks /\ key1 \in DOMAIN blocks
                     THEN MergeBlocks(blocks, key0, key1) ELSE blocks
        \* the policy is asked for a side only when the two roots differ
        /\ last' = Call("union", key0, key1, << >>, IF r.ret THEN side ELSE "Left",
                        r.ret, r.fault)
    /\ snap' = TouchOrig(snap)
    /\ UNCHANGED << thr, copy, passed >>

GetMut(key, v) ==
    /\ AllIdle /\ Ready
    /\ LET r == GetMutRun(link_parent, payload, key, v) IN
        /\ link_parent' = r.lp
        /\ payload' = r.pl
        /\ last' = Call("get_mut", key, 0, << v >>, "Left", r.ret, r.fault)
    /\ snap' = TouchOrig(snap)
    /\ UNCHANGED << thr, copy, blocks, passed >>

\* ---------------------------------- shared (&self) ops, one caller at a time
Find(key) ==
    /\ AllIdle /\ Ready
    /\ LET r == FindRun(link_parent, key) IN
        /\ link_parent' = r.lp
        /\ last' = Call("find", key, 0, << >>, "Left", r.ret, r.fault)
    /\ snap' = TouchOrig(snap)
    /\ UNCHANGED << payload, thr, copy, blocks, passed >>

Get(key) ==
    /\ AllIdle /\ Ready
    /\ LET r == GetRun(link_parent, payload, key) IN
        /\ link_parent' = r.lp
        /\ last' = Call("get", key, 0, << >>, "Left", r.ret, r.fault)
    /\ snap' = TouchOrig(snap)
    /\ UNCHANGED << payload, thr, copy, blocks, passed >>

\* The caller lets go of the result of its last call (the borrow a get or
\* get_mut returned ends); only then can the next call borrow the structure.
Release ==
    /\ ~Ready
    /\ last' = NoCall
    /\ UNCHANGED << link_parent, payload, thr, copy, blocks, passed, snap >>

\* Each call is guarded by its action; the guard is repeated here so that it
\* is tested once per state rather than once per argument.
Next ==
    \/ Ready /\ \E data \in Vals : Insert(data)
    \/ Ready /\ \E vs \in SeqsUpTo(MaxExt) : Extend(vs)
    \/ Ready /\ \E key0 \in Keys, key1 \in Keys, side \in Sides : UnionOp(key0, key1, side)
    \/ Ready /\ \E key \in Keys, v \in Vals : GetMut(key, v)
    \/ Ready /\ \E key \in Keys : Find(key)
    \/ Ready /\ \E key \in Keys : Get(key)
    \/ Release

Spec == Init /\ [][Next]_vars

\* ------------------------------------------------ the original and a clone
\* let dup = uf.clone(): from here on two structures exist.
Clone ==
    /\ AllIdle /\ Ready
    /\ ~copy.live
    /\ LET r == CloneRun(link_parent, payload) IN
        copy' = [lp |-> r.lp, pl |-> r.pl, live |-> TRUE]
    /\ snap' = [lp |-> link_parent, pl |-> payload, calls |-> 0,
                orig |-> FALSE, copy |-> FALSE]
    /\ UNCHANGED << link_parent, payload, thr, blocks, passed, last >>

\* Calls on the duplicate: the same methods, run on its map and vector.
CopyInsert(data) ==
    /\ copy.live /\ Ready
    /\ VecLen(copy.pl) < MaxSize
    /\ LET r == InsertRun(copy.lp, copy.pl, data) IN
        copy' = [copy EXCEPT !.lp = r.lp, !.pl = r.pl]
    /\ snap' = TouchCopy(snap)
    /\ UNCHANGED << link_parent, payload, thr, blocks, passed, last >>

CopyExtend(vs) ==
    /\ copy.live /\ Ready
    /\ VecLen(copy.pl) + Len(vs) <= MaxSize
    /\ LET r == ExtendRun(copy.lp, copy.pl, vs) IN
        copy' = [copy EXCEPT !.lp = r.lp, !.pl = r.pl]
    /\ snap' = TouchCopy(snap)
    /\ UNCHANGED << link_parent, payload, thr, blocks, passed, last >>

CopyUnion(key0, key1, side) ==
    /\ copy.live /\ Ready
    /\ LET r == UnionRun(copy.lp, copy.pl, key0, key1, side) IN
        copy' = [copy EXCEPT !.lp = r.lp, !.pl = r.pl]
    /\ snap' = TouchCopy(snap)
    /\ UNCHANGED << link_parent, payload, thr, blocks, passed, last >>

CopyFind(key) ==
    /\ copy.live /\ Ready
    /\ LET r == FindRun(copy.lp, key) IN
        copy' = [copy EXCEPT !.lp = r.lp]
    /\ snap' = TouchCopy(snap)
    /\ UNCHANGED << link_parent, payload, thr, blocks, passed, last >>

CopyGetMut(key, v) ==
    /\ copy.live /\ Ready
    /\ LET r == GetMutRun(copy.lp, copy.pl, key, v) IN
        copy' = [copy EXCEPT !.lp = r.lp, !.pl = r.pl]
    /\ snap' = TouchCopy(snap)
    /\ UNCHANGED << link_parent, payload, thr, blocks, passed, last >>

\* The duplicate goes out of scope.
DropCopy ==
    /\ copy.live /\ Ready
    /\ copy' = NoCopy
    /\ snap' = NoSnap
    /\ UNCHANGED << link_parent, payload, thr, blocks, passed, last >>

\* While a duplicate exists at most MaxAfterClone calls are made.
MayCall == ~copy.live \/ snap.calls < MaxAfterClone
CopyKeys == 0 .. VecLen(copy.pl)

NextClone ==
    \/ Ready /\ MayCall /\ \E data \in Vals : Insert(data)
    \/ Ready /\ MayCall /\ \E vs \in SeqsUpTo(MaxExt) : Extend(vs)
    \/ Ready /\ MayCall /\ \E key0 \in Keys, key1 \in Keys, side \in Sides :
            UnionOp(key0, key1, side)
    \/ Ready /\ MayCall /\ \E key \in Keys, v \in Vals : GetMut(key, v)
    \/ Ready /\ MayCall /\ \E key \in Keys : Find(key)
    \/ Ready /\ MayCall /\ \E key \in Keys : Get(key)
    \/ Release
    \/ Clone
    \/ copy.live /\ Ready /\ MayCall /\ \E data \in Vals : CopyInsert(data)
    \/ copy.live /\ Ready /\ MayCall /\ \E vs \in SeqsUpTo(MaxExt) : CopyExtend(vs)
    \/ copy.live /\ Ready /\ MayCall /\ \E key0 \in CopyKeys, key1 \in CopyKeys, side \in Sides :
            CopyUnion(key0, key1, side)
    \/ copy.live /\ Ready /\ MayCall /\ \E key \in CopyKeys : CopyFind(key)
    \/ copy.live /\ Ready /\ MayCall /\ \E key \in CopyKeys, v \in Vals : CopyGetMut(key, v)
    \/ DropCopy

CloneSpec == Init /\ [][NextClone]_vars

\* ------------------------- shared (&self) ops, one DashMap access at a time
\* Lines 74-76: k = key; p = *link_parent.get(&k).unwrap(); first loop test.
Begin(t, op, key) ==
    /\ Ready
    /\ thr[t].pc = "idle"
    /\ thr' = [thr EXCEPT ![t] =
            IF ~HasKey(link_parent, key)
            THEN [IdleFrame EXCEPT !.pc = "panicked", !.op = op, !.key = key]
            ELSE LET p == link_parent[key] IN
                 IF p # key
                 THEN [IdleFrame EXCEPT !.pc = "l77", !.op = op, !.key = key, !.k = key,
                                        !.p = p, !.root0 = Root(link_parent, key)]
                 ELSE [IdleFrame EXCEPT !.pc = IF op = "get" THEN "l88" ELSE "done",
                                        !.op = op, !.key = key, !.k = key, !.ret = key,
                                        !.root0 = Root(link_parent, key)]]
    /\ UNCHANGED << link_parent, payload, copy, blocks, passed, snap, last >>

\* Line 77: pp = *link_parent.get(&p).unwrap()
ReadPP(t) ==
    /\ thr[t].pc = "l77"
    /\ thr' = [thr EXCEPT ![t] =
            IF ~HasKey(link_parent, thr[t].p)
            THEN [IdleFrame EXCEPT !.pc = "panicked", !.op = thr[t].op, !.key = thr[t].key]
            ELSE [thr[t] EXCEPT !.pc = "l78", !.pp = link_parent[thr[t].p]]]
    /\ UNCHANGED << link_parent, payload, copy, blocks, passed, snap, last >>

\* Lines 78-80 and the loop test: link_parent.insert(k, pp); k = p; p = pp.
WritePP_Stay(t) ==
    /\ thr[t].pc = "l78"
    /\ link_parent' = Halve(link_parent, thr[t].k, thr[t].p, thr[t].pp)
    /\ thr' = [thr EXCEPT ![t] = [thr[t] EXCEPT !.pc = "l77", !.pp = 0]]
    /\ UNCHANGED << payload, copy, blocks, passed, snap, last >>
WritePP(t) ==
    /\ thr[t].pc = "l78"
    /\ link_parent' = Halve(link_parent, thr[t].k, thr[t].p, thr[t].pp)
    /\ LET st == thr[t].stale \/ link_parent[thr[t].k] # thr[t].p IN
       thr' = [thr EXCEPT ![t] =
            IF thr[t].pp # thr[t].p
            THEN [thr[t] EXCEPT !.pc = "l77", !.k = thr[t].p, !.p = thr[t].pp, !.pp = 0,
                                !.stale = st]
            ELSE [thr[t] EXCEPT !.pc = IF thr[t].op = "get" THEN "l88" ELSE "done",
                                !.k = thr[t].p, !.p = 0, !.pp = 0, !.ret = thr[t].p,
                                !.stale = st]]
    /\ UNCHANGED << payload, copy, blocks, passed, snap, last >>

\* Line 88: self.payload[root_key].as_ref().unwrap()
ReadPayload(t) ==
    /\ thr[t].pc = "l88"
    /\ thr' = [thr EXCEPT ![t] =
            IF thr[t].k \notin DOMAIN payload \/ ~IsSome(payload[thr[t].k])
            THEN [IdleFrame EXCEPT !.pc = "panicked", !.op = thr[t].op, !.key = thr[t].key]
            ELSE [thr[t] EXCEPT !.pc = "done", !.ret = Unwrap(payload[thr[t].k])]]
    /\ UNCHANGED << link_parent, payload, copy, blocks, passed, snap, last >>

\* The call has returned (or unwound) and its result is dropped.
Finish(t) ==
    /\ thr[t].pc \in {"done", "panicked"}
    /\ thr' = [thr EXCEPT ![t] = IdleFrame]
    /\ UNCHANGED << link_parent, payload, copy, blocks, passed, snap, last >>

ThreadStep(t) ==
    \/ Ready /\ thr[t].pc = "idle" /\ \E op \in {"find", "get"}, key \in Keys : Begin(t, op, key)
    \/ ReadPP(t)
    \/ WritePP(t)
    \/ ReadPayload(t)
    \/ Finish(t)

NextConc ==
    \/ Ready /\ AllIdle /\ \E data \in Vals : Insert(data)
    \/ Ready /\ AllIdle /\ \E vs \in SeqsUpTo(MaxExt) : Extend(vs)
    \/ Ready /\ AllIdle /\ \E key0 \in Keys, key1 \in Keys, side \in Sides :
            UnionOp(key0, key1, side)
    \/ Ready /\ AllIdle /\ \E key \in Keys, v \in Vals : GetMut(key, v)
    \/ Release
    \/ \E t \in Threads : ThreadStep(t)

ConcSpec == Init /\ [][NextConc]_vars

\* ------------------------------------------- concurrent finds, fair scheduling
\* A thread inside find takes its next step: no access blocks (a DashMap
\* shard lock is held for one get or insert only), so a scheduler that is
\* fair to every thread lets each of them run.
Run(t) == ReadPP(t) \/ WritePP(t)

\* The structure is built by insert and union while no find runs; then
\* threads call find, interleaved access by access, and one caller alone calls
\* find as a whole.
NextFair ==
    \/ Ready /\ AllIdle /\ \E data \in {0} : Insert(data)
    \/ Ready /\ AllIdle /\ \E key0 \in Indices, key1 \in Indices, side \in Sides :
            UnionOp(key0, key1, side)
    \/ Ready /\ AllIdle /\ \E key \in Indices : Find(key)
    \/ Release
    \/ \E t \in Threads :
            Ready /\ thr[t].pc = "idle" /\ \E key \in Indices : Begin(t, "find", key)
    \/ \E t \in Threads : ReadPP(t)
    \/ \E t \in Threads : WritePP(t)
    \/ \E t \in Threads : Finish(t)

FairSpec == Init /\ [][NextFair]_vars /\ \A t \in Threads : WF_thr(Run(t))

\* ================================================================== claims
\* What the last call saw and what a caller sees now.
find0(k) == FindRun(last.lp0, k).ret
find1(k) == FindRun(link_parent, k).ret
get1(k) == GetRun(link_parent, payload, k)
InRange0(k) == k \in DOMAIN last.pl0
UnionCalled == last.op = "union" /\ InRange0(last.k0) /\ InRange0(last.k1)
UnionOk == UnionCalled /\ ~last.fault /\ last.ok

\* C1: for in-range keys a and b with find(a) # find(b) before the call,
\* union(a, b) returns true and right afterwards find(a) = find(b).
C1_UnionJoins ==
    (UnionCalled /\ find0(last.k0) # find0(last.k1)) =>
        /\ ~last.fault
        /\ last.ok
        /\ find1(last.k0) = find1(last.k1)
        /\ ~FindRun(link_parent, last.k0).fault
        /\ ~FindRun(link_parent, last.k1).fault

\* A union of two different sets, one key of which was not its set's root.
C1_Witness ==
    /\ UnionCalled
    /\ find0(last.k0) # find0(last.k1)
    /\ find0(last.k0) # last.k0
    /\ last.ok

\* C2 as stated: for in-range keys a and b with find(a) = find(b), union(a, b)
\* returns false and leaves every payload slot and every parent link as it
\* was before the call.
C2_NoMutationAtAll ==
    (UnionCalled /\ find0(last.k0) = find0(last.k1)) =>
        /\ ~last.ok
        /\ payload = last.pl0
        /\ link_parent = last.lp0

\* C2 as amended: for in-range keys a and b with find(a) = find(b),
\* union(a, b) returns false and leaves every payload slot and every
\* element's root as it was; the parent links are those that find(a) followed
\* by find(b) leaves behind.
C2_OnlyCompression ==
    (UnionCalled /\ find0(last.k0) = find0(last.k1)) =>
        /\ ~last.fault
        /\ ~last.ok
        /\ payload = last.pl0
        /\ DOMAIN link_parent = DOMAIN last.lp0
        /\ \A i \in DOMAIN last.lp0 : Root(link_parent, i) = Root(last.lp0, i)
        /\ link_parent = FindRun(FindRun(last.lp0, last.k0).lp, last.k1).lp

\* A union inside one set whose finds rewrote a parent link.
C2_Witness ==
    /\ UnionCalled
    /\ find0(last.k0) = find0(last.k1)
    /\ last.k0 # last.k1
    /\ ~last.ok
    /\ link_parent # last.lp0

\* C3: a payload slot is populated exactly when its index is a root, and
\* every set (block of the partition the calls describe) has exactly one
\* root, hence exactly one populated slot.
C3_PopulatedIffRoot ==
    /\ DOMAIN link_parent = DOMAIN payload
    /\ \A i \in Indices : IsSome(payload[i]) <=> link_parent[i] = i
    /\ \A i \in DOMAIN blocks :
        /\ Cardinality({j \in BlockOf(blocks, i) : link_parent[j] = j}) = 1
        /\ Cardinality({j \in BlockOf(blocks, i) : IsSome(payload[j])}) = 1

\* After a union that merged two sets: a set of three with two empty slots.
C3_Witness ==
    /\ UnionOk
    /\ \E i \in DOMAIN blocks : Cardinality(BlockOf(blocks, i)) >= 3
    /\ Cardinality({j \in Indices : ~IsSome(payload[j])}) >= 2
    /\ Cardinality({j \in Indices : IsSome(payload[j])}) >= 2

\* C4: the parent map has an entry for exactly the indices in [0, size), and
\* following parent links from any index reaches a self-loop: at most
\* size - 1 links lead to an index r with parent(r) = r.
C4_TotalAndAcyclic ==
    /\ DOMAIN link_parent = Indices
    /\ \A i \in Indices : link_parent[i] \in Indices
    /\ \A i \in Indices :
        LET r == RootN(link_parent, i, size - 1) IN
        r \in DOMAIN link_parent /\ link_parent[r] = r

\* A chain of two links below a root, next to an element added by extend.
C4_Witness ==
    /\ last.op = "extend" /\ Len(last.vs) >= 1
    /\ \E i \in Indices :
        /\ link_parent[i] # i
        /\ link_parent[link_parent[i]] # link_parent[i]

\* C5: between calls, find(a) = find(b) exactly when a and b are in one block
\* of the partition in which insert/extend add singletons and union(a, b)
\* merges the blocks of a and b; an element alone in its block is its own
\* root.  (Release leaves the structure as the call left it, so the states
\* between calls show every structure a sequence of calls produces.)
C5_RefinesPartition ==
    Ready =>
        /\ DOMAIN blocks = Indices
        /\ \A a \in Indices, b \in Indices :
            (find1(a) = find1(b)) <=> (blocks[a] = blocks[b])
        /\ \A a \in Indices : BlockOf(blocks, a) = {a} => find1(a) = a

\* Unions joined three elements through a chain of two links, and a fourth
\* element was never unioned.
C5_Witness ==
    /\ Ready
    /\ \E a \in Indices :
        /\ Cardinality(BlockOf(blocks, a)) = 3
        /\ link_parent[a] # a
        /\ link_parent[link_parent[a]] # link_parent[a]
    /\ \E d \in Indices : BlockOf(blocks, d) = {d} /\ find1(d) = d

\* C6: while threads interleave the reads and writes of their find and get
\* calls (no union runs meanwhile), no step of a thread introduces a cycle or
\* changes the root any element's parent chain leads to, and every call
\* returns the root (get: the payload at the root) its key had when the call
\* began.
C6_StepKeepsRoots ==
    thr' # thr =>
        /\ DOMAIN link_parent' = DOMAIN link_parent
        /\ \A i \in DOMAIN link_parent :
            /\ Root(link_parent', i) = Root(link_parent, i)
            /\ link_parent'[Root(link_parent', i)] = Root(link_parent', i)
C6_ReturnsRoot ==
    \A t \in Threads :
        /\ (thr[t].pc = "panicked") => ~HasKey(link_parent, thr[t].key)
        /\ (thr[t].pc = "done" /\ thr[t].op = "find") => thr[t].ret = thr[t].root0
        /\ (thr[t].pc = "done" /\ thr[t].op = "get") =>
                thr[t].ret = Unwrap(payload[thr[t].root0])
C6_ConcurrentFind == [][C6_StepKeepsRoots]_vars /\ []C6_ReturnsRoot

\* A find has returned after overwriting a link that another thread had
\* rewritten since the find read it, while the other thread's call is still
\* between its read and its write.
C6_Witness ==
    \E t \in Threads, u \in Threads :
        /\ t # u
        /\ thr[t].pc = "done" /\ thr[t].op = "find" /\ thr[t].stale
        /\ thr[t].key # thr[t].ret
        /\ thr[u].pc = "l78"

\* C7: find(k) of an existing key k changes only by a union that links the
\* root of k's set under another root: find, get, get_mut, insert and extend
\* leave find(k) the same for every existing k, a find returns what the next
\* find of the same key returns, and a union that changes find(k) returned
\* true and made the old root a child of the new one.
C7_RootChangesOnlyByUnion ==
    /\ last.op \in {"find", "get", "get_mut", "insert", "extend"} =>
            \A k \in DOMAIN last.lp0 : find1(k) = find0(k)
    /\ (last.op = "find" /\ ~last.fault) =>
            last.ret = find0(last.k0) /\ find1(last.k0) = last.ret
    /\ last.op = "union" =>
            \A k \in DOMAIN last.lp0 :
                find1(k) # find0(k) =>
                    /\ last.ok
                    /\ link_parent[find0(k)] = find1(k)
                    /\ last.lp0[find0(k)] = find0(k)
                    /\ last.lp0[find1(k)] = find1(k)

\* A find that rewrote a parent link and returned a root other than its key.
C7_Witness ==
    /\ last.op = "find" /\ ~last.fault
    /\ link_parent # last.lp0
    /\ last.ret # last.k0
    /\ find1(last.k0) = last.ret

\* C8: in a union that returned true, with r0 = find(key0) and r1 =
\* find(key1) before the call, the policy's side alone picks the survivor:
\* Left makes r0 the root of both sets, Right r1; the merged value is in the
\* survivor's slot, the other root's slot is empty and its parent link is
\* the survivor.
C8_PolicyPicksSurvivor ==
    UnionOk =>
        LET r0 == find0(last.k0)
            r1 == find0(last.k1)
            surv == IF last.side = "Left" THEN r0 ELSE r1
            other == IF last.side = "Left" THEN r1 ELSE r0
        IN
        /\ r0 # r1
        /\ find1(last.k0) = surv /\ find1(last.k1) = surv
        /\ link_parent[surv] = surv
        /\ link_parent[other] = surv
        /\ payload[surv] = Some(MergeVal(Unwrap(last.pl0[r0]), Unwrap(last.pl0[r1])))
        /\ payload[other] = None

\* The policy answered Right on keys that were not roots: the second key's
\* root survives.
C8_Witness ==
    /\ UnionOk
    /\ last.side = "Right"
    /\ find0(last.k0) # last.k0
    /\ find0(last.k1) # last.k1
    /\ find1(last.k0) = find0(last.k1)

\* C9: after a union that returned true, get(a) and get(b) return the value
\* the policy made from the old payload of a's root (left) and the old
\* payload of b's root (right), and so does get(x) for every x that was in
\* either set.
C9_GetReturnsMerged ==
    UnionOk =>
        LET r0 == find0(last.k0)
            r1 == find0(last.k1)
            val == MergeVal(Unwrap(last.pl0[r0]), Unwrap(last.pl0[r1]))
        IN
        \A x \in DOMAIN last.lp0 :
            find0(x) \in {r0, r1} => ~get1(x).fault /\ get1(x).ret = val

\* Two sets of two with different payloads were merged: swapping the
\* policy's arguments would give another value.
C9_Witness ==
    /\ UnionOk
    /\ LET r0 == find0(last.k0)
           r1 == find0(last.k1)
       IN
       /\ last.pl0[r0] # last.pl0[r1]
       /\ r0 # last.k0 /\ r1 # last.k1
       /\ get1(last.k0).ret = get1(last.k1).ret

\* C10: insert(value) returns the size before the call, leaves every older
\* index with its parent link and payload, and the new index k is a
\* singleton: find(k) = k and get(k) is the inserted value.
C10_InsertAppendsSingleton ==
    last.op = "insert" =>
        LET k == last.ret IN
        /\ k = VecLen(last.pl0)
        /\ size = k + 1
        /\ DOMAIN payload = 0 .. k /\ DOMAIN link_parent = 0 .. k
        /\ \A i \in DOMAIN last.pl0 :
            payload[i] = last.pl0[i] /\ link_parent[i] = last.lp0[i]
        /\ find1(k) = k
        /\ ~get1(k).fault /\ get1(k).ret = last.vs[1]
        /\ \A i \in DOMAIN last.pl0 : find1(i) # k

\* An insert into a structure that already holds a merged set.
C10_Witness ==
    /\ last.op = "insert"
    /\ last.ret >= 2
    /\ \E i \in DOMAIN last.lp0 : last.lp0[i] # i
    /\ find1(last.ret) = last.ret

\* C11: size() is the number of values insert, from_iter and extend were
\* given so far; no call makes it smaller, insert adds one, extend the length
\* of its sequence, and union, find, get and get_mut leave it as it was.
C11_SizeCountsValues ==
    /\ size = passed
    /\ last.op = "from_iter" => size = Len(last.vs)
    /\ last.op \in {"insert", "extend", "union", "find", "get", "get_mut"} =>
            size >= VecLen(last.pl0)
    /\ last.op = "insert" => size = VecLen(last.pl0) + 1
    /\ last.op = "extend" => size = VecLen(last.pl0) + Len(last.vs)
    /\ last.op \in {"union", "find", "get", "get_mut"} => size = VecLen(last.pl0)

\* An extend with two values on a structure that already holds a merged set.
C11_Witness ==
    /\ last.op = "extend" /\ Len(last.vs) = 2
    /\ \E i \in DOMAIN last.lp0 : last.lp0[i] # i
    /\ size = VecLen(last.pl0) + 2

\* The number of parent links from i to its root.
RECURSIVE DistN(_, _, _)
DistN(lp, i, n) ==
    IF n = 0 \/ ~HasKey(lp, i) THEN 0
    ELSE IF lp[i] = i THEN 0 ELSE 1 + DistN(lp, lp[i], n - 1)
Dist(lp, i) == DistN(lp, i, Cardinality(DOMAIN lp))

\* C12: under any interleaving of concurrent find/get calls, a compression
\* write parent(k) := pp leaves k no farther from its root than it was just
\* before the write.
C12_WriteStep ==
    \A t \in Threads :
        (thr[t].pc = "l78" /\ thr'[t] # thr[t]) =>
            Dist(link_parent', thr[t].k) <= Dist(link_parent, thr[t].k)
C12_WriteShortens == [][C12_WriteStep]_vars

\* C13: a structure made by clone is independent of the original: while only
\* the original has been called since the duplication, the duplicate's size,
\* parent links, payload slots and find results are those of the original at
\* the time of duplication; while only the duplicate has been called, the
\* original's are.
C13_CloneIndependent ==
    copy.live =>
        /\ ~snap.copy =>
            /\ copy.lp = snap.lp /\ copy.pl = snap.pl
            /\ VecLen(copy.pl) = VecLen(snap.pl)
            /\ \A k \in DOMAIN snap.pl :
                FindRun(copy.lp, k).ret = FindRun(snap.lp, k).ret
        /\ ~snap.orig =>
            /\ link_parent = snap.lp /\ payload = snap.pl
            /\ \A k \in DOMAIN snap.pl : find1(k) = FindRun(snap.lp, k).ret

\* A union on the original after the duplication merged two sets and
\* rewrote a link by compression; the duplicate differs from the original.
C13_Witness ==
    /\ copy.live /\ snap.orig /\ ~snap.copy
    /\ UnionOk
    /\ link_parent # copy.lp /\ payload # copy.pl
    /\ \E i \in DOMAIN snap.lp : snap.lp[i] # i /\ link_parent[i] # snap.lp[i]

\* Calling insert once per value, in order.
RECURSIVE InsertAll(_, _, _)
InsertAll(lp, pl, vs) ==
    IF vs = << >> THEN [lp |-> lp, pl |-> pl]
    ELSE LET r == InsertRun(lp, pl, Head(vs)) IN InsertAll(r.lp, r.pl, Tail(vs))

\* C14: from_iter of a sequence and extend with a sequence produce exactly the
\* state that one insert per value, in order, produces: the new indices run
\* from the old size in order, each new element is a singleton root holding
\* its value, and the links, slots and roots of the elements that existed
\* before are untouched.
C14_BulkIsRepeatedInsert ==
    /\ last.op = "from_iter" =>
        LET r == InsertAll(EmptyMap, EmptyMap, last.vs) IN
        /\ link_parent = r.lp /\ payload = r.pl
        /\ \A i \in 1 .. Len(last.vs) :
            link_parent[i - 1] = i - 1 /\ payload[i - 1] = Some(last.vs[i])
    /\ last.op = "extend" =>
        LET r == InsertAll(last.lp0, last.pl0, last.vs)
            n0 == VecLen(last.pl0)
        IN
        /\ link_parent = r.lp /\ payload = r.pl
        /\ \A i \in 1 .. Len(last.vs) :
            /\ link_parent[n0 + i - 1] = n0 + i - 1
            /\ payload[n0 + i - 1] = Some(last.vs[i])
        /\ \A k \in DOMAIN last.pl0 :
            /\ link_parent[k] = last.lp0[k]
            /\ payload[k] = last.pl0[k]
            /\ find1(k) = find0(k)

\* extend with two different values on a structure that has a merged set.
C14_Witness ==
    /\ last.op = "extend" /\ Len(last.vs) = 2 /\ last.vs[1] # last.vs[2]
    /\ \E i \in DOMAIN last.lp0 : last.lp0[i] # i
    /\ payload[VecLen(last.pl0)] = Some(last.vs[1])

\* C15: find, get, get_mut and union called with a key outside [0, size())
\* fault instead of returning a result; union does so when either of its two
\* keys is out of range.
C15_OutOfRangeFaults ==
    /\ (last.op \in {"find", "get", "get_mut"} /\ ~InRange0(last.k0)) => last.fault
    /\ (last.op = "union" /\ (~InRange0(last.k0) \/ ~InRange0(last.k1))) => last.fault

\* union whose first key is a non-root element and whose second key is the
\* size of the structure.
C15_Witness ==
    /\ last.op = "union" /\ last.fault
    /\ InRange0(last.k0) /\ last.lp0[last.k0] # last.k0
    /\ last.k1 = VecLen(last.pl0)

Roots(lp) == {i \in DOMAIN lp : lp[i] = i}

\* C16: root status is lost for good: an element that is not a root is not a
\* root after any step and its payload slot stays empty; no step puts a value
\* into an empty slot; and the number of roots grows only by insert and extend.
C16_Step ==
    /\ \A i \in DOMAIN payload :
        /\ link_parent[i] # i => (link_parent'[i] # i /\ payload'[i] = None)
        /\ payload[i] = None => payload'[i] = None
    /\ Cardinality(Roots(link_parent')) > Cardinality(Roots(link_parent))
        => last'.op \in {"insert", "extend"}
C16_RootLostForGood == [][C16_Step]_vars

\* A get_mut through an element two links below its root: the link of the
\* element is rewritten, the root's value is overwritten, and the element and
\* its former parent are still non-roots with empty slots.
C16_Witness ==
    /\ last.op = "get_mut" /\ ~last.fault
    /\ InRange0(last.k0)
    /\ last.lp0[last.k0] # last.k0
    /\ link_parent[last.k0] # last.lp0[last.k0]
    /\ link_parent[last.k0] # last.k0
    /\ payload[last.k0] = None /\ payload[last.lp0[last.k0]] = None
    /\ payload[last.ret] # last.pl0[last.ret]

\* The nodes on the path from i to its root, both included.
RECURSIVE PathN(_, _, _)
PathN(lp, i, n) ==
    IF n = 0 \/ ~HasKey(lp, i) THEN {}
    ELSE IF lp[i] = i THEN {i}
    ELSE {i} \cup PathN(lp, lp[i], n - 1)
Path(lp, i) == PathN(lp, i, Cardinality(DOMAIN lp))

\* C17: a single-threaded find(key) returns the root of key's path and
\* re-points every non-root node of that path to its former grandparent (a
\* child of the root keeps pointing to the root); the links of the nodes off
\* the path, the root's self-loop, all payload slots and the size are
\* unchanged.
C17_FindHalvesPath ==
    (last.op = "find" /\ InRange0(last.k0)) =>
        /\ ~last.fault
        /\ last.ret = Root(last.lp0, last.k0)
        /\ DOMAIN link_parent = DOMAIN last.lp0
        /\ \A i \in DOMAIN last.lp0 :
            link_parent[i] =
                IF i \in Path(last.lp0, last.k0) /\ last.lp0[i] # i
                THEN last.lp0[last.lp0[i]]
                ELSE last.lp0[i]
        /\ link_parent[last.ret] = last.ret
        /\ payload = last.pl0
        /\ size = VecLen(last.pl0)

\* find on a key three links below its root: the key and its parent are both
\* re-pointed, the grandparent is a child of the root and keeps its link.
C17_Witness ==
    /\ last.op = "find" /\ InRange0(last.k0)
    /\ LET k1 == last.lp0[last.k0]
           k2 == last.lp0[k1]
           k3 == last.lp0[k2]
       IN
       /\ k1 # last.k0 /\ k2 # k1 /\ k3 # k2
       /\ last.ret = k3
       /\ link_parent[last.k0] = k2 /\ link_parent[k1] = k3 /\ link_parent[k2] = k3

\* C18: a successful union(a, b) affects only the two sets involved: every
\* element outside the sets of a and b has the same find and get results (and
\* the same link) before and after, the only payload slots that change are
\* those of the two old roots, and the only element that stops being a root
\* is the root that did not survive.
C18_UnionFrame ==
    UnionOk =>
        LET r0 == Root(last.lp0, last.k0)
            r1 == Root(last.lp0, last.k1)
            gone == IF last.side = "Left" THEN r1 ELSE r0
        IN
        /\ \A x \in DOMAIN last.pl0 :
            Root(last.lp0, x) \notin {r0, r1} =>
                /\ find1(x) = find0(x)
                /\ get1(x).ret = GetRun(last.lp0, last.pl0, x).ret
                /\ get1(x).fault = GetRun(last.lp0, last.pl0, x).fault
                /\ link_parent[x] = last.lp0[x]
        /\ \A i \in DOMAIN last.pl0 : payload[i] # last.pl0[i] => i \in {r0, r1}
        /\ \A i \in DOMAIN last.pl0 :
            (last.lp0[i] = i /\ link_parent[i] # i) <=> i = gone

\* union through a non-root key while a third set exists.
C18_Witness ==
    /\ UnionOk
    /\ last.lp0[last.k0] # last.k0
    /\ \E x \in DOMAIN last.pl0 :
        Root(last.lp0, x) \notin {Root(last.lp0, last.k0), Root(last.lp0, last.k1)}
    /\ payload[Root(last.lp0, last.k0)] # last.pl0[Root(last.lp0, last.k0)]
    /\ payload[Root(last.lp0, last.k1)] # last.pl0[Root(last.lp0, last.k1)]

\* C20: in every reachable state no call with in-range keys faults: the
\* parent lookups of find find an entry, the two take().unwrap() of union hit
\* populated slots, and get and get_mut find a populated slot at the root.
C20_InRangeNeverFaults ==
    /\ (last.op \in {"find", "get", "get_mut"} /\ InRange0(last.k0)) => ~last.fault
    /\ UnionCalled => ~last.fault
    /\ last.op \in {"insert", "extend", "from_iter"} => ~last.fault
    /\ \A k \in Indices :
        /\ ~FindRun(link_parent, k).fault
        /\ ~GetRun(link_parent, payload, k).fault

\* A union of two sets of two elements each, called through their non-root
\* members, after which every key still resolves to a populated root.
C20_Witness ==
    /\ UnionOk
    /\ last.lp0[last.k0] # last.k0 /\ last.lp0[last.k1] # last.k1
    /\ IsSome(payload[find1(last.k0)])

\* C19: every find on an in-range key terminates: run by one caller alone it
\* makes at most as many loop iterations as the key has links to its root,
\* and when finds of several threads interleave under fair scheduling, with
\* no union running, each call returns.
C19_FindTerminates ==
    /\ [](\A k \in Indices :
            /\ ~FindRun(link_parent, k).fault
            /\ FindRun(link_parent, k).iters <= Dist(link_parent, k))
    /\ \A t \in Threads :
        (thr[t].pc \in {"l77", "l78"}) ~> (thr[t].pc = "done")

\* A find has returned the root although another thread rewrote the link of
\* a node it was standing on, and the other thread is still inside its find.
C19_Witness ==
    \E t \in Threads, u \in Threads :
        /\ t # u
        /\ thr[t].pc = "done" /\ thr[t].stale /\ thr[t].ret = thr[t].root0
        /\ thr[u].pc \in {"l77", "l78"}

=============================================================================
